---- MODULE Spec2Model ----
(***************************************************************************)
(* Model of the Gemini retry controller of app/google_api_validator.py:    *)
(* _call_gemini_with_retry (used by grade_student_sql_with_google_api and  *)
(* validate_and_score_sql_with_google_api) and the inline copy of the same *)
(* loop in gemini_grade_full_lab_sheet.                                    *)
(*                                                                         *)
(* Texts (error strings, response texts) are sequences of tokens.  Every   *)
(* decimal digit is a token of its own, so that the substring test         *)
(* "429" in error_str and the pattern \d+ are computed on the text and     *)
(* not on the structure the text was rendered from.  No other token        *)
(* contains a digit that could take part in "429".                         *)
(***************************************************************************)
EXTENDS Integers, Sequences, FiniteSets, TLC

\* the retry controller (one invocation)
VARIABLES pc, fn, i, calls, sleeps, attempts, result, state

\* two invocations in one process: the process-wide API configuration, the
\* thread that is running and the local variables of the suspended one
VARIABLES api_key, cur, other

\* app/database.py: the connections that are open, the last call and what
\* it gave, the number of calls made
VARIABLES db_open, db_call, db_ret, db_rows

\* app/main.py: what the page shows of the last API result; the file in the
\* uploader of the grader tab, the session state and what the last click on
\* "Grade Question" gave; the query each tab selected from the candidates
VARIABLES display, uploaded_file, session_state, graded, tab2, tab3

retryVars == <<pc, fn, i, calls, sleeps, attempts, result, state>>

pairVars == <<api_key, cur, other>>

dbVars == <<db_open, db_call, db_ret, db_rows>>

uiVars == <<display, uploaded_file, session_state, graded, tab2, tab3>>

vars == <<pc, fn, i, calls, sleeps, attempts, result, state,
          api_key, cur, other, db_open, db_call, db_ret, db_rows,
          display, uploaded_file, session_state, graded, tab2, tab3>>

(***************************************************************************)
(* Program constants.                                                      *)
(***************************************************************************)
MAX_RETRIES == 5

INITIAL_WAIT_SECONDS == 2

FORCED_WAIT_SECONDS == 20

(***************************************************************************)
(* Bounds of the model.                                                    *)
(***************************************************************************)
\* the largest retry delay the service suggests (two digits, so that \d+
\* and int() work on more than one digit)
MaxDelay == 12

NoDelay == -1

SuggestedDelays == {0, 5, MaxDelay}

(***************************************************************************)
(* Text primitives.                                                        *)
(***************************************************************************)
DigitChars == <<"0", "1", "2", "3", "4", "5", "6", "7", "8", "9">>

IsDigit(c) == \E d \in 1..10 : DigitChars[d] = c

DigitValue(c) == (CHOOSE d \in 1..10 : DigitChars[d] = c) - 1

IsSpace(c) == c \in {" ", "\n"}

\* str(n) of a natural number: its decimal digits, most significant first
RECURSIVE DecimalDigits(_)
DecimalDigits(n) ==
    IF n < 10 THEN <<DigitChars[n + 1]>>
    ELSE DecimalDigits(n \div 10) \o <<DigitChars[(n % 10) + 1]>>

\* int(s) of a string of decimal digits
RECURSIVE int(_)
int(s) ==
    IF s = <<>> THEN 0
    ELSE 10 * int(SubSeq(s, 1, Len(s) - 1)) + DigitValue(s[Len(s)])

\* the first position >= p of s that holds no whitespace (Len(s) + 1 if none)
RECURSIVE SkipSpaces(_, _)
SkipSpaces(s, p) ==
    IF p <= Len(s) /\ IsSpace(s[p]) THEN SkipSpaces(s, p + 1) ELSE p

\* the first position >= p of s that holds no digit (Len(s) + 1 if none)
RECURSIVE SkipDigits(_, _)
SkipDigits(s, p) ==
    IF p <= Len(s) /\ IsDigit(s[p]) THEN SkipDigits(s, p + 1) ELSE p

\* "429" in error_str
Contains429(s) ==
    \E p \in 1..(Len(s) - 2) : s[p] = "4" /\ s[p + 1] = "2" /\ s[p + 2] = "9"

\* The pattern  retry_delay {\s*seconds: (\d+)\s*}  anchored at position p:
\* the digits of group 1, or <<>> when the pattern does not match there.
MatchAt(s, p) ==
    IF p > Len(s) \/ s[p] # "retry_delay {" THEN <<>>
    ELSE LET q == SkipSpaces(s, p + 1) IN
         IF q > Len(s) \/ s[q] # "seconds: " THEN <<>>
         ELSE LET r == SkipDigits(s, q + 1)
                  t == SkipSpaces(s, r)
              IN  IF r = q + 1 \/ t > Len(s) \/ s[t] # "}" THEN <<>>
                  ELSE SubSeq(s, q + 1, r - 1)

NoMatch == <<>>

\* re.search(r"retry_delay {\s*seconds: (\d+)\s*}", error_str): group 1 of
\* the leftmost match, NoMatch when there is none
re_search(s) ==
    IF \E p \in 1..Len(s) : MatchAt(s, p) # <<>>
    THEN MatchAt(s, CHOOSE p \in 1..Len(s) :
                        /\ MatchAt(s, p) # <<>>
                        /\ \A q \in 1..(p - 1) : MatchAt(s, q) = <<>>)
    ELSE NoMatch

\* s.strip(): leading and trailing whitespace removed
RECURSIVE strip(_)
strip(s) ==
    IF s = <<>> THEN s
    ELSE IF IsSpace(s[1]) THEN strip(Tail(s))
    ELSE IF IsSpace(s[Len(s)]) THEN strip(SubSeq(s, 1, Len(s) - 1))
    ELSE s

\* whether the text pat occurs in s at position 1
StartsWith(s, pat) == Len(s) >= Len(pat) /\ SubSeq(s, 1, Len(pat)) = pat

\* s.replace(pat, ""): every occurrence of the text pat removed, scanning
\* from the left
RECURSIVE replace(_, _)
replace(s, pat) ==
    IF s = <<>> THEN s
    ELSE IF StartsWith(s, pat) THEN replace(SubSeq(s, Len(pat) + 1, Len(s)), pat)
    ELSE <<s[1]>> \o replace(Tail(s), pat)

\* the code fence of three backquotes is one token; a fence with a language
\* tag is the fence followed by the tag
FENCE == "<3 backquotes>"

FENCE_JSON == <<FENCE, "json">>

RECURSIVE Pow2(_)
Pow2(n) == IF n = 0 THEN 1 ELSE 2 * Pow2(n - 1)

(***************************************************************************)
(* Python values: what json.loads yields and what the functions return.    *)
(* A value is described by its type, the keys it has when it is a dict,    *)
(* and the value stored under the key "error" ("" when there is none).     *)
(***************************************************************************)
PyValue(type, keys, error) == [type |-> type, keys |-> keys, error |-> error]

NoValue == PyValue("unset", {}, "")

\* {"error": msg}
ErrorDict(msg) == PyValue("dict", {"error"}, msg)

MSG_INVALID_JSON == "Gemini returned invalid JSON."

MSG_NON_RETRYABLE == "A non-retryable API error occurred"

MSG_EXHAUSTED == "Failed to get a response from the API after MAX_RETRIES attempts due to persistent rate limiting."

MSG_NO_KEY == "Google API key not found in secrets.toml."

\* The JSON documents that occur as tokens of a response text, and the
\* value json.loads gives for each.
JsonDocuments ==
    {"{\"score\": 9, \"feedback\": \"ok\"}", "{\"error\": \"quota\"}",
     "[1, 2]", "7", "\"ok\"", "null"}

JsonValue(doc) ==
    CASE doc = "{\"score\": 9, \"feedback\": \"ok\"}" ->
             PyValue("dict", {"score", "feedback"}, "")
      [] doc = "{\"error\": \"quota\"}" -> PyValue("dict", {"error"}, "quota")
      [] doc = "[1, 2]" -> PyValue("list", {}, "")
      [] doc = "7" -> PyValue("int", {}, "")
      [] doc = "\"ok\"" -> PyValue("str", {}, "")
      [] doc = "null" -> PyValue("NoneType", {}, "")

\* the tokens of s that are not whitespace
RECURSIVE NonSpace(_)
NonSpace(s) ==
    IF s = <<>> THEN s
    ELSE IF IsSpace(s[1]) THEN NonSpace(Tail(s))
    ELSE <<s[1]>> \o NonSpace(Tail(s))

\* json.loads(s) raises unless s is exactly one JSON document, with
\* optional whitespace around it
JsonParses(s) == Len(NonSpace(s)) = 1 /\ NonSpace(s)[1] \in JsonDocuments

json_loads(s) == JsonValue(NonSpace(s)[1])

(***************************************************************************)
(* Exceptions raised by model.generate_content / response.text.            *)
(* code is the HTTP status of a google.api_core error (0: the exception    *)
(* has none), retry_delay the seconds of the RetryInfo detail (NoDelay:    *)
(* no such detail), nanos whether the detail also carries nanoseconds.     *)
(***************************************************************************)
Exc(cls, code, message, retry_delay, nanos) ==
    [cls |-> cls, code |-> code, message |-> message,
     retry_delay |-> retry_delay, nanos |-> nanos]

NoExc == Exc("None", 0, <<>>, NoDelay, FALSE)

PlainMessage == <<"request failed">>

\* a message that happens to hold the digits 429 (an object address)
AddressMessage == <<"object at 0x7f", "4", "2", "9", "1c0">>

RateLimitErrors ==
    {Exc("ResourceExhausted", 429, <<"Resource has been exhausted">>, d, FALSE) :
        d \in {NoDelay} \cup SuggestedDelays}
    \cup {Exc("ResourceExhausted", 429, <<"Resource has been exhausted">>, 5, TRUE)}

OtherErrors ==
    {Exc(c[1], c[2], m, NoDelay, FALSE) :
        c \in {<<"DeadlineExceeded", 504>>, <<"ServiceUnavailable", 503>>,
               <<"InvalidArgument", 400>>},
        m \in {PlainMessage, AddressMessage}}
    \cup {Exc("ServiceUnavailable", 503, PlainMessage, 5, FALSE),
          Exc("InternalServerError", 500, PlainMessage, NoDelay, FALSE),
          Exc("NotFound", 404, PlainMessage, NoDelay, FALSE),
          \* response.text of a blocked response
          Exc("ValueError", 0, <<"response.text requires a valid Part">>,
              NoDelay, FALSE)}

ServiceErrors == RateLimitErrors \cup OtherErrors

\* the classes caught by "except Exception"
ExceptionSubclasses ==
    {"ResourceExhausted", "DeadlineExceeded", "ServiceUnavailable",
     "InvalidArgument", "InternalServerError", "NotFound", "ValueError"}

\* str(e): "<code> <message>", followed by the details when there are any
\* (GoogleAPICallError.__str__); the RetryInfo detail prints in protobuf
\* text format
RetryInfoText(e) ==
    IF e.retry_delay = NoDelay THEN <<>>
    ELSE <<" ", "[", "retry_delay {", "\n", " ", "seconds: ">>
         \o DecimalDigits(e.retry_delay)
         \o (IF e.nanos THEN <<"\n", " ", "nanos: ", "5", "0", "0">> ELSE <<>>)
         \o <<"\n", "}", "\n", "]">>

str(e) ==
    (IF e.code = 0 THEN <<>> ELSE DecimalDigits(e.code) \o <<" ">>)
    \o e.message \o RetryInfoText(e)

(***************************************************************************)
(* Response texts of the service.                                          *)
(***************************************************************************)
GoodDoc == "{\"score\": 9, \"feedback\": \"ok\"}"

ResponseTexts ==
    {<<GoodDoc>>,
     <<FENCE, "json", "\n", GoodDoc, "\n", FENCE>>,
     <<"\n", FENCE, "\n", GoodDoc, "\n", FENCE, "\n">>,
     <<" ", GoodDoc, "\n">>,
     <<"{\"error\": \"quota\"}">>,
     <<FENCE, "json", "\n", "[1, 2]", "\n", FENCE>>,
     <<"7">>, <<"\"ok\"">>, <<"null">>,
     <<>>,
     <<"Here is the JSON:", "\n", GoodDoc>>,
     <<FENCE, "json", "\n", "{\"score\": 9,">>,
     <<FENCE, "sql", "\n", GoodDoc, "\n", FENCE>>,
     <<GoodDoc, "\n", GoodDoc>>}

\* what one attempt gets from the service: a response text or an exception
Outcome(tag, text, exc) == [tag |-> tag, text |-> text, exc |-> exc]

ServiceOutcomes ==
    {Outcome("response", t, NoExc) : t \in ResponseTexts}
    \cup {Outcome("exception", <<>>, e) : e \in ServiceErrors}

(***************************************************************************)
(* State.                                                                  *)
(*   pc       "idle" (no call yet), "loop" (at the head of the retry loop, *)
(*            about to run iteration i), "returned", "raised"              *)
(*   fn       the public function that is running                          *)
(*   i        the loop variable                                            *)
(*   calls    model.generate_content calls made by this invocation         *)
(*   sleeps   durations of the time.sleep calls of this invocation         *)
(*   attempts per iteration run: what the service gave and the wait_time   *)
(*            computed from it (NoWait when none was computed)             *)
(*   result   the value returned                                           *)
(*   state    which exit was taken: Attempting, Succeeded (line 23/191),   *)
(*            FailedTerminal (line 26/194 or 51/208), FailedExhausted      *)
(*            (line 53/209), NotConfigured (line 64/111/153)               *)
(***************************************************************************)
NoWait == -1

Attempt(outcome, wait) == [outcome |-> outcome, wait |-> wait]

HelperCallers ==
    {"grade_student_sql_with_google_api", "validate_and_score_sql_with_google_api"}

Functions == HelperCallers \cup {"gemini_grade_full_lab_sheet"}

\* the local variables of an invocation that has not started
IdleLocals ==
    [pc |-> "idle", fn |-> "none", i |-> 0, calls |-> 0, sleeps |-> <<>>,
     attempts |-> <<>>, result |-> NoValue, state |-> "Idle"]

\* a Python value of the database functions: its type, its text when it is
\* a bool, a str or an exception, and its number of rows when it is a list
DbValue(type, text, rows) == [type |-> type, text |-> text, rows |-> rows]

PyNone == DbValue("NoneType", <<>>, 0)

NoCall == [fn |-> "none", query |-> <<>>, db |-> "none", connects |-> 0]

NoReturn == [kind |-> "none", first |-> PyNone, second |-> PyNone]

\* no file in the uploader
NoFile == [name |-> "none", readable |-> FALSE, text |-> <<>>]

\* st.session_state of a new session: no key is set
NewSession ==
    [has_student_queries |-> FALSE, student_queries |-> <<>>,
     processed_file |-> "none"]

\* no click on "Grade Question" yet
NoGrade == [kind |-> "none", selected_index |-> 0, student_sql |-> <<>>]

\* no candidate list handled yet
NoSelection ==
    [kind |-> "none", candidates |-> <<>>, answers |-> <<>>,
     selected |-> <<>>, validated |-> 0]

Init ==
    /\ pc = "idle"
    /\ fn = "none"
    /\ i = 0
    /\ calls = 0
    /\ sleeps = <<>>
    /\ attempts = <<>>
    /\ result = NoValue
    /\ state = "Idle"
    /\ api_key = "unset"
    /\ cur = 1
    /\ other = IdleLocals
    /\ db_open = 0
    /\ db_call = NoCall
    /\ db_ret = NoReturn
    /\ db_rows = 0
    /\ display = "none"
    /\ uploaded_file = NoFile
    /\ session_state = NewSession
    /\ graded = NoGrade
    /\ tab2 = NoSelection
    /\ tab3 = NoSelection

\* variant: the loop starts at index 1, range(1, MAX_RETRIES)
InvokeFromOne(f, key_present) ==
    /\ pc \in {"idle", "returned"}
    /\ fn' = f
    /\ i' = 1
    /\ calls' = 0
    /\ sleeps' = <<>>
    /\ attempts' = <<>>
    /\ IF key_present
       THEN /\ pc' = "loop"
            /\ result' = NoValue
            /\ state' = "Attempting"
       ELSE /\ pc' = "returned"
            /\ result' = ErrorDict(MSG_NO_KEY)
            /\ state' = "NotConfigured"

\* variant: the failure of genai.configure is not handled and the function
\* goes on to its loop
InvokeIgnoringKey(f, key_present) ==
    /\ pc \in {"idle", "returned"}
    /\ fn' = f
    /\ i' = 0
    /\ calls' = 0
    /\ sleeps' = <<>>
    /\ attempts' = <<>>
    /\ pc' = "loop"
    /\ result' = NoValue
    /\ state' = IF key_present THEN "Attempting" ELSE "NotConfigured"

\* One call of a public function up to its retry loop: genai.configure with
\* the key of st.secrets, which raises AttributeError/KeyError when the key
\* is missing.
Invoke(f, key_present) ==
    /\ pc \in {"idle", "returned"}
    /\ fn' = f
    /\ i' = 0
    /\ calls' = 0
    /\ sleeps' = <<>>
    /\ attempts' = <<>>
    /\ IF key_present
       THEN /\ pc' = "loop"
            /\ result' = NoValue
            /\ state' = "Attempting"
       ELSE /\ pc' = "returned"
            /\ result' = ErrorDict(MSG_NO_KEY)
            /\ state' = "NotConfigured"

(***************************************************************************)
(* _call_gemini_with_retry, lines 16-53.                                   *)
(***************************************************************************)
\* variant: one iteration too many, range(MAX_RETRIES + 1)
RetryRangeInclusive == 0..MAX_RETRIES

\* range(MAX_RETRIES)
RetryRange == 0..(MAX_RETRIES - 1)

\* variant: only the errors of the API client are caught
CatchesApiErrorsOnly(cls) == cls \in ExceptionSubclasses \ {"ValueError"}

\* except Exception as e
Catches(cls) == cls \in ExceptionSubclasses

\* variant: the fences are left in the text
json_text_unfenced(text) == strip(text)

\* response.text.strip().replace(FENCE_JSON, "").replace(FENCE, "")
json_text(text) == replace(replace(strip(text), FENCE_JSON), <<FENCE>>)

\* variant: a looser signature, "4" in error_str
IsRateLimitLoose(error_str) == \E p \in 1..Len(error_str) : error_str[p] = "4"

\* if "429" in error_str
IsRateLimit(error_str) == Contains429(error_str)

\* variant: the one second buffer is forgotten
wait_time_no_buffer(error_str, idx) ==
    LET match == re_search(error_str) IN
    IF match # NoMatch THEN int(match)
    ELSE INITIAL_WAIT_SECONDS * Pow2(idx)

\* lines 36-43
wait_time(error_str, idx) ==
    LET match == re_search(error_str) IN
    IF match # NoMatch THEN int(match) + 1
    ELSE INITIAL_WAIT_SECONDS * Pow2(idx)

\* variant: the sleep is not skipped on the last attempt
ShouldSleepAlways(idx) == idx < MAX_RETRIES

\* if i < MAX_RETRIES - 1: time.sleep(wait_time)
ShouldSleep(idx) == idx < MAX_RETRIES - 1

\* variant: a response that does not parse is retried like a rate limit
ReturnParsedOrRetry(o) ==
    /\ attempts' = Append(attempts, Attempt(o, NoWait))
    /\ UNCHANGED sleeps
    /\ IF JsonParses(replace(replace(strip(o.text), FENCE_JSON), <<FENCE>>))
       THEN /\ result' = json_loads(replace(replace(strip(o.text), FENCE_JSON), <<FENCE>>))
            /\ state' = "Succeeded"
            /\ pc' = "returned"
            /\ i' = i
       ELSE IF i + 1 < MAX_RETRIES
       THEN /\ i' = i + 1
            /\ UNCHANGED <<pc, result, state>>
       ELSE /\ pc' = "returned"
            /\ result' = ErrorDict(MSG_EXHAUSTED)
            /\ state' = "FailedExhausted"
            /\ i' = i

\* variant: the cooldown is slept inside the try before the return, and a
\* cooldown that raises is reported as an API error
ReturnParsedCooldownFails(o) ==
    /\ attempts' = Append(attempts, Attempt(o, NoWait))
    /\ pc' = "returned"
    /\ i' = i
    /\ IF JsonParses(replace(replace(strip(o.text), FENCE_JSON), <<FENCE>>))
       THEN /\ sleeps' = Append(sleeps, FORCED_WAIT_SECONDS)
            /\ \/ /\ result' = json_loads(replace(replace(strip(o.text), FENCE_JSON), <<FENCE>>))
                  /\ state' = "Succeeded"
               \/ /\ result' = ErrorDict(MSG_NON_RETRYABLE)
                  /\ state' = "FailedTerminal"
       ELSE /\ sleeps' = sleeps
            /\ result' = ErrorDict(MSG_INVALID_JSON)
            /\ state' = "FailedTerminal"

\* lines 21-26: the call returned a response
ReturnParsed(o) ==
    /\ attempts' = Append(attempts, Attempt(o, NoWait))
    /\ pc' = "returned"
    /\ UNCHANGED <<i, sleeps>>
    /\ IF JsonParses(json_text(o.text))
       THEN /\ result' = json_loads(json_text(o.text))
            /\ state' = "Succeeded"
       ELSE /\ result' = ErrorDict(MSG_INVALID_JSON)
            /\ state' = "FailedTerminal"

\* an exception that "except Exception" does not catch leaves the function
Propagate(o) ==
    /\ attempts' = Append(attempts, Attempt(o, NoWait))
    /\ pc' = "raised"
    /\ UNCHANGED <<i, sleeps, result, state>>

\* lines 34-47, and line 53 when the loop is over
Backoff(o) ==
    /\ attempts' = Append(attempts, Attempt(o, wait_time(str(o.exc), i)))
    /\ sleeps' = IF ShouldSleep(i)
                 THEN Append(sleeps, wait_time(str(o.exc), i))
                 ELSE sleeps
    /\ IF i + 1 \in RetryRange
       THEN /\ i' = i + 1
            /\ UNCHANGED <<pc, result, state>>
       ELSE /\ pc' = "returned"
            /\ result' = ErrorDict(MSG_EXHAUSTED)
            /\ state' = "FailedExhausted"
            /\ i' = i

\* lines 48-51
FailImmediately(o) ==
    /\ attempts' = Append(attempts, Attempt(o, NoWait))
    /\ pc' = "returned"
    /\ result' = ErrorDict(MSG_NON_RETRYABLE)
    /\ state' = "FailedTerminal"
    /\ UNCHANGED <<i, sleeps>>

\* One iteration of the loop, with the return after the loop when the
\* iteration was the last one.
RetryIteration(o) ==
    /\ calls' = calls + 1
    /\ fn' = fn
    /\ IF o.tag = "response" THEN ReturnParsed(o)
       ELSE IF ~Catches(o.exc.cls) THEN Propagate(o)
       ELSE IF IsRateLimit(str(o.exc)) THEN Backoff(o)
       ELSE FailImmediately(o)

_call_gemini_with_retry ==
    /\ pc = "loop"
    /\ fn \in HelperCallers
    /\ \E o \in ServiceOutcomes : RetryIteration(o)

(***************************************************************************)
(* The loop of gemini_grade_full_lab_sheet, lines 185-209.                 *)
(***************************************************************************)
\* variant: one iteration too many
LabRetryRangeInclusive == 0..MAX_RETRIES

LabRetryRange == 0..(MAX_RETRIES - 1)

LabCatches(cls) == cls \in ExceptionSubclasses

\* variant: the fences are left in the text
lab_json_text_unfenced(text) == strip(text)

\* line 189
lab_json_text(text) == replace(replace(strip(text), FENCE_JSON), <<FENCE>>)

LabIsRateLimit(error_str) == Contains429(error_str)

\* variant: the exponent counts attempts from 1
lab_wait_time_from_one(error_str, idx) ==
    LET match == re_search(error_str) IN
    IF match # NoMatch THEN int(match) + 1
    ELSE INITIAL_WAIT_SECONDS * Pow2(idx + 1)

\* lines 199-203
lab_wait_time(error_str, idx) ==
    LET match == re_search(error_str) IN
    IF match # NoMatch THEN int(match) + 1
    ELSE INITIAL_WAIT_SECONDS * Pow2(idx)

\* variant: the retry does not sleep
LabShouldSleepNever(idx) == FALSE

LabShouldSleep(idx) == idx < MAX_RETRIES - 1

\* variant: line 195 placed before the return of line 191
LabReturnParsedThenCooldown(o) ==
    /\ attempts' = Append(attempts, Attempt(o, NoWait))
    /\ pc' = "returned"
    /\ i' = i
    /\ IF JsonParses(replace(replace(strip(o.text), FENCE_JSON), <<FENCE>>))
       THEN /\ sleeps' = Append(sleeps, FORCED_WAIT_SECONDS)
            /\ result' = json_loads(replace(replace(strip(o.text), FENCE_JSON), <<FENCE>>))
            /\ state' = "Succeeded"
       ELSE /\ sleeps' = sleeps
            /\ result' = ErrorDict(MSG_INVALID_JSON)
            /\ state' = "FailedTerminal"

\* lines 189-194
LabReturnParsed(o) ==
    /\ attempts' = Append(attempts, Attempt(o, NoWait))
    /\ pc' = "returned"
    /\ UNCHANGED <<i, sleeps>>
    /\ IF JsonParses(lab_json_text(o.text))
       THEN /\ result' = json_loads(lab_json_text(o.text))
            /\ state' = "Succeeded"
       ELSE /\ result' = ErrorDict(MSG_INVALID_JSON)
            /\ state' = "FailedTerminal"

LabPropagate(o) ==
    /\ attempts' = Append(attempts, Attempt(o, NoWait))
    /\ pc' = "raised"
    /\ UNCHANGED <<i, sleeps, result, state>>

\* lines 199-206, and line 209 when the loop is over
LabBackoff(o) ==
    /\ attempts' = Append(attempts, Attempt(o, lab_wait_time(str(o.exc), i)))
    /\ sleeps' = IF LabShouldSleep(i)
                 THEN Append(sleeps, lab_wait_time(str(o.exc), i))
                 ELSE sleeps
    /\ IF i + 1 \in LabRetryRange
       THEN /\ i' = i + 1
            /\ UNCHANGED <<pc, result, state>>
       ELSE /\ pc' = "returned"
            /\ result' = ErrorDict(MSG_EXHAUSTED)
            /\ state' = "FailedExhausted"
            /\ i' = i

\* lines 207-208
LabFailImmediately(o) ==
    /\ attempts' = Append(attempts, Attempt(o, NoWait))
    /\ pc' = "returned"
    /\ result' = ErrorDict(MSG_NON_RETRYABLE)
    /\ state' = "FailedTerminal"
    /\ UNCHANGED <<i, sleeps>>

LabIteration(o) ==
    /\ calls' = calls + 1
    /\ fn' = fn
    /\ IF o.tag = "response" THEN LabReturnParsed(o)
       ELSE IF ~LabCatches(o.exc.cls) THEN LabPropagate(o)
       ELSE IF LabIsRateLimit(str(o.exc)) THEN LabBackoff(o)
       ELSE LabFailImmediately(o)

gemini_grade_full_lab_sheet ==
    /\ pc = "loop"
    /\ fn = "gemini_grade_full_lab_sheet"
    /\ \E o \in ServiceOutcomes : LabIteration(o)

Call == \E f \in Functions, key_present \in BOOLEAN : Invoke(f, key_present)

\* the steps of one invocation running alone
CallStep == Call /\ UNCHANGED <<pairVars, dbVars, uiVars>>

HelperStep == _call_gemini_with_retry /\ UNCHANGED <<pairVars, dbVars, uiVars>>

LabStep == gemini_grade_full_lab_sheet /\ UNCHANGED <<pairVars, dbVars, uiVars>>

Next ==
    \/ CallStep
    \/ HelperStep
    \/ LabStep

Spec == Init /\ [][Next]_vars

\* One outcome for each branch of the loop body: a reply that parses, one
\* that does not, a rate limit with and without a delay hint, another error
\* with and without the digits 429 in its text.
BranchOutcomes ==
    {Outcome("response", <<FENCE, "json", "\n", GoodDoc, "\n", FENCE>>, NoExc),
     Outcome("response", <<"Here is the JSON:", "\n", GoodDoc>>, NoExc),
     Outcome("exception", <<>>,
             Exc("ResourceExhausted", 429, <<"Resource has been exhausted">>, 5, FALSE)),
     Outcome("exception", <<>>,
             Exc("ResourceExhausted", 429, <<"Resource has been exhausted">>, NoDelay, FALSE)),
     Outcome("exception", <<>>,
             Exc("DeadlineExceeded", 504, AddressMessage, NoDelay, FALSE)),
     Outcome("exception", <<>>,
             Exc("InternalServerError", 500, PlainMessage, NoDelay, FALSE))}

BranchHelperStep ==
    /\ pc = "loop"
    /\ fn \in HelperCallers
    /\ \E o \in BranchOutcomes : RetryIteration(o)
    /\ UNCHANGED <<pairVars, dbVars, uiVars>>

BranchLabStep ==
    /\ pc = "loop"
    /\ fn = "gemini_grade_full_lab_sheet"
    /\ \E o \in BranchOutcomes : LabIteration(o)
    /\ UNCHANGED <<pairVars, dbVars, uiVars>>

LiveNext ==
    \/ CallStep
    \/ BranchHelperStep
    \/ BranchLabStep

\* generate_content and time.sleep return: an invocation that is in its
\* loop runs its next iteration
SpecLive ==
    Init /\ [][LiveNext]_vars /\ WF_vars(BranchHelperStep) /\ WF_vars(BranchLabStep)

(***************************************************************************)
(* Two invocations in one process (two sessions of the application, each   *)
(* in its own thread).  The variables pc .. state are the local variables  *)
(* of the thread that is running, other holds those of the suspended       *)
(* thread, and a switch of thread exchanges them.  api_key is the          *)
(* configuration of the genai module, which is shared by the threads.      *)
(***************************************************************************)
SECRET_API_KEY == "st.secrets.google_ai.api_key"

\* variant: each public function configures a key of its own
configured_key_per_function(f) == f

\* genai.configure(api_key=st.secrets.google_ai.api_key), lines 62, 109, 151
configured_key(f) == SECRET_API_KEY

Locals ==
    [pc |-> pc, fn |-> fn, i |-> i, calls |-> calls, sleeps |-> sleeps,
     attempts |-> attempts, result |-> result, state |-> state]

PairFunctions ==
    {"validate_and_score_sql_with_google_api", "gemini_grade_full_lab_sheet"}

PairOutcomes ==
    {o \in BranchOutcomes :
        /\ o.tag = "response" => JsonParses(json_text(o.text))
        /\ o.tag = "exception" => o.exc.cls \in {"ResourceExhausted", "InternalServerError"}}

\* the entry of a public function: the key is configured when the secrets
\* hold one
PairCall ==
    /\ \E f \in PairFunctions, key_present \in BOOLEAN :
          /\ Invoke(f, key_present)
          /\ api_key' = IF key_present THEN configured_key(f) ELSE api_key
    /\ UNCHANGED <<cur, other, dbVars, uiVars>>

PairHelperStep ==
    /\ pc = "loop"
    /\ fn \in HelperCallers
    /\ \E o \in PairOutcomes : RetryIteration(o)
    /\ UNCHANGED <<pairVars, dbVars, uiVars>>

PairLabStep ==
    /\ pc = "loop"
    /\ fn = "gemini_grade_full_lab_sheet"
    /\ \E o \in PairOutcomes : LabIteration(o)
    /\ UNCHANGED <<pairVars, dbVars, uiVars>>

\* the scheduler suspends the running thread and resumes the other one
Switch ==
    /\ cur' = 3 - cur
    /\ other' = Locals
    /\ pc' = other.pc
    /\ fn' = other.fn
    /\ i' = other.i
    /\ calls' = other.calls
    /\ sleeps' = other.sleeps
    /\ attempts' = other.attempts
    /\ result' = other.result
    /\ state' = other.state
    /\ UNCHANGED <<api_key, dbVars, uiVars>>

PairNext ==
    \/ PairCall
    \/ PairHelperStep
    \/ PairLabStep
    \/ Switch

SpecPair == Init /\ [][PairNext]_vars

(***************************************************************************)
(* The two loops fed the same service outcomes.  _call_gemini_with_retry   *)
(* runs first on outcomes of the service; when it has returned, its run is *)
(* kept in other and the loop of gemini_grade_full_lab_sheet is run on the *)
(* outcomes that run received, in the same order.                          *)
(***************************************************************************)
EqHelperCall ==
    /\ pc = "idle" \/ (cur = 2 /\ pc = "returned")
    /\ \E f \in HelperCallers : Invoke(f, TRUE)
    /\ cur' = 1
    /\ other' = IdleLocals
    /\ UNCHANGED <<api_key, dbVars, uiVars>>

EqHelperStep ==
    /\ cur = 1
    /\ pc = "loop"
    /\ \E o \in BranchOutcomes : RetryIteration(o)
    /\ UNCHANGED <<pairVars, dbVars, uiVars>>

EqLabCall ==
    /\ cur = 1
    /\ pc = "returned"
    /\ Invoke("gemini_grade_full_lab_sheet", TRUE)
    /\ cur' = 2
    /\ other' = Locals
    /\ UNCHANGED <<api_key, dbVars, uiVars>>

EqLabStep ==
    /\ cur = 2
    /\ pc = "loop"
    /\ calls < Len(other.attempts)
    /\ LabIteration(other.attempts[calls + 1].outcome)
    /\ UNCHANGED <<pairVars, dbVars, uiVars>>

EqNext ==
    \/ EqHelperCall
    \/ EqHelperStep
    \/ EqLabCall
    \/ EqLabStep

SpecEq == Init /\ [][EqNext]_vars

(***************************************************************************)
(* The callers of src/app/main.py: each tests "error" in api_result and,   *)
(* when that is false, reads the fields with api_result.get.               *)
(***************************************************************************)
uiRest == <<uploaded_file, session_state, graded, tab2, tab3>>

\* "error" in api_result: a key of a dict, an element of a list, a substring
\* of a str; the other types are not iterable and the test raises
SupportsIn(v) == v.type \in {"dict", "list", "str"}

ErrorIn(v) == v.type = "dict" /\ "error" \in v.keys

\* api_result.get(...) exists for a dict only
HasGet(v) == v.type = "dict"

\* main.py lines 285-290, 341-345, 417-421
Shown(v) ==
    IF ~SupportsIn(v) THEN "TypeError"
    ELSE IF ErrorIn(v) THEN "api_error"
    ELSE IF ~HasGet(v) THEN "AttributeError"
    ELSE "result"

\* the replies of BranchOutcomes and three more that json.loads accepts
UiOutcomes ==
    BranchOutcomes
    \cup {Outcome("response", t, NoExc) :
            t \in {<<"{\"error\": \"quota\"}">>, <<"7">>,
                   <<FENCE, "json", "\n", "[1, 2]", "\n", FENCE>>}}

UiCall ==
    /\ Call
    /\ display' = "none"
    /\ UNCHANGED <<pairVars, dbVars, uiRest>>

UiHelperStep ==
    /\ pc = "loop"
    /\ fn \in HelperCallers
    /\ \E o \in UiOutcomes : RetryIteration(o)
    /\ UNCHANGED <<pairVars, dbVars, uiVars>>

UiLabStep ==
    /\ pc = "loop"
    /\ fn = "gemini_grade_full_lab_sheet"
    /\ \E o \in UiOutcomes : LabIteration(o)
    /\ UNCHANGED <<pairVars, dbVars, uiVars>>

\* the caller handles the value the function returned
Render ==
    /\ pc = "returned"
    /\ display = "none"
    /\ display' = Shown(result)
    /\ UNCHANGED <<retryVars, pairVars, dbVars, uiRest>>

UiNext ==
    \/ UiCall
    \/ UiHelperStep
    \/ UiLabStep
    \/ Render

SpecUi == Init /\ [][UiNext]_vars

(***************************************************************************)
(* The database functions of src/app/database.py.  A query is a sequence   *)
(* of tokens (keywords, whitespace, the rest of the statement); db_rows is *)
(* the number of rows of the table t the queries are about; db_open is the *)
(* number of connections that are open; db_call and db_ret are the last    *)
(* call and what it gave: a returned pair or a raised exception.           *)
(***************************************************************************)
MaxRows == 3

Q_SELECT == <<"SELECT", " * FROM t">>
Q_SELECT_PADDED == <<" ", "select", " * from t", "\n">>
Q_SELECT_INTO == <<"SELECT", " * ", "INTO", " u FROM t">>
Q_INSERT == <<"INSERT", " INTO t VALUES (1)">>
Q_DELETE == <<"DELETE", " FROM t">>
Q_MISSPELT == <<"SELEC", " * FROM t">>

Queries ==
    {<<>>, <<" ", "\n">>, Q_SELECT, Q_SELECT_PADDED, Q_SELECT_INTO, Q_INSERT,
     Q_DELETE, Q_MISSPELT}

\* the server refuses the connection, serves the call, or drops the
\* connection while it executes the statement
DbConditions == {"down", "up", "drops"}

\* str.upper()
UpperToken(t) ==
    CASE t = "select" -> "SELECT"
      [] t = " * from t" -> " * FROM T"
      [] OTHER -> t

upper(s) == [k \in 1..Len(s) |-> UpperToken(s[k])]

\* str.splitlines(): the lines of s, without the line ends
RECURSIVE splitlines(_)
splitlines(s) ==
    IF s = <<>> THEN <<>>
    ELSE LET ends == {k \in 1..Len(s) : s[k] = "\n"}
             p == IF ends = {} THEN Len(s) + 1
                  ELSE CHOOSE k \in ends : \A j \in ends : k <= j
         IN  <<SubSeq(s, 1, p - 1)>> \o splitlines(SubSeq(s, p + 1, Len(s)))

\* str(db_err) of the psycopg2 errors
SyntaxErrorText ==
    <<"syntax error at or near 'SELEC'", "\n", "LINE 1: ", "SELEC", "\n", "^">>
EmptyQueryText == <<"can't execute an empty query">>
ConnectionLostText ==
    <<"server closed the connection unexpectedly", "\n",
      "This probably means the server terminated abnormally">>
NoDbError == <<>>

\* get_db_connection: the connection, or None after any exception
get_db_connection(db) == IF db = "down" THEN "None" ELSE "connection"

\* the statement the server is asked to run, without an EXPLAIN prefix
Statement(stmt) ==
    LET s == strip(stmt) IN
    IF StartsWith(s, <<"EXPLAIN", " ">>) THEN strip(SubSeq(s, 3, Len(s))) ELSE s

\* cursor.execute(stmt): the text of the psycopg2.Error it raises, or
\* NoDbError when the server accepts the statement
cursor_execute(stmt, db) ==
    LET s == upper(Statement(stmt)) IN
    IF db = "drops" THEN ConnectionLostText
    ELSE IF s = <<>> THEN EmptyQueryText
    ELSE IF s[1] \notin {"SELECT", "INSERT", "DELETE"} THEN SyntaxErrorText
    ELSE NoDbError

\* cursor.description after a statement: None when it returns no rows
cursor_description(stmt) ==
    IF \E k \in 1..Len(stmt) : UpperToken(stmt[k]) = "INTO" THEN "None"
    ELSE "columns"

\* cursor.rowcount after a data-changing statement
cursor_rowcount(stmt) ==
    IF upper(strip(stmt))[1] = "INSERT" THEN 1 ELSE db_rows

\* the rows of t once the statement is committed
Committed(stmt) ==
    IF upper(strip(stmt))[1] = "INSERT" THEN db_rows + 1 ELSE 0

Returned(a, b) == [kind |-> "return", first |-> a, second |-> b]
Raised(cls, text) ==
    [kind |-> "raise", first |-> DbValue(cls, text, 0), second |-> PyNone]
PyBool(b) == DbValue("bool", <<IF b THEN "True" ELSE "False">>, 0)
PyStr(text) == DbValue("str", text, 0)
PyList(n) == DbValue("list", <<>>, n)

NoneHasNoCursor ==
    Raised("AttributeError", <<"'NoneType' object has no attribute 'cursor'">>)

\* str(db_err).splitlines()[0] of an error text without any line
ListIndexOutOfRange == Raised("IndexError", <<"list index out of range">>)

\* the connections psycopg2.connect has opened when it gives conn
Opened(conn) == IF conn = "None" THEN 0 ELSE 1

\* variant: conn.close() at the end of the try block instead of the finally
\* clause; exit is how the try block is left
close_on_return_only(conn, exit) ==
    IF conn # "None" /\ exit = "return" THEN 1 ELSE 0

\* finally: if conn: conn.close()  (lines 61-63, 83-85, 114-116, 145-147,
\* 184-186): the connections closed, however the try block is left
finally_close(conn, exit) == IF conn # "None" THEN 1 ELSE 0

\* what validate_sql_query(sql_query) gives under the database condition
\* db: the pair it returns or the exception that leaves it
validate_returns(q, db) ==
    IF q = <<>> \/ strip(q) = <<>>
    THEN Returned(PyBool(FALSE), PyStr(<<"Query is empty.">>))
    ELSE IF get_db_connection(db) = "None"
    THEN \* conn.cursor() on None; the except clause is for psycopg2.Error
         NoneHasNoCursor
    ELSE LET err == cursor_execute(<<"EXPLAIN", " ">> \o q, db) IN
         IF err = NoDbError
         THEN Returned(PyBool(TRUE), PyStr(<<"Query syntax is valid.">>))
         ELSE IF splitlines(err) = <<>> THEN ListIndexOutOfRange
         ELSE Returned(PyBool(FALSE), PyStr(<<"Invalid Query: ">> \o splitlines(err)[1]))

\* validate_sql_query(sql_query) under the database condition db
validate_sql_query(q, db) ==
    /\ db_rows' = db_rows
    /\ db_ret' = validate_returns(q, db)
    /\ IF q = <<>> \/ strip(q) = <<>>
       THEN /\ db_call' = [fn |-> "validate_sql_query", query |-> q,
                           db |-> db, connects |-> 0]
            /\ db_open' = db_open
       ELSE LET conn == get_db_connection(db)
                err == cursor_execute(<<"EXPLAIN", " ">> \o q, db)
            IN  /\ db_call' = [fn |-> "validate_sql_query", query |-> q,
                               db |-> db, connects |-> 1]
                \* with conn None the finally clause closes nothing
                /\ db_open' = db_open + Opened(conn)
                                - finally_close(conn,
                                                IF conn = "None" THEN "raise"
                                                ELSE IF err = NoDbError THEN "return"
                                                ELSE "except")

\* execute_pg_query(sql_query) under the database condition db
execute_pg_query(q, db) ==
    LET conn == get_db_connection(db)
        err == cursor_execute(q, db)
        Failed(line) ==
            Returned(PyNone, PyStr(<<"Database Execution Error: ">> \o line))
        is_select == StartsWith(upper(strip(q)), <<"SELECT">>)
    IN  /\ db_call' = [fn |-> "execute_pg_query", query |-> q, db |-> db,
                       connects |-> 1]
        /\ IF conn = "None"
           THEN /\ db_ret' = NoneHasNoCursor
                /\ db_open' = db_open + Opened(conn) - finally_close(conn, "raise")
                /\ db_rows' = db_rows
           ELSE /\ db_open' = db_open + Opened(conn)
                                - finally_close(conn, IF err = NoDbError
                                                      THEN "return" ELSE "except")
                /\ IF err # NoDbError
                   THEN /\ db_ret' = IF splitlines(err) = <<>>
                                   THEN ListIndexOutOfRange
                                   ELSE Failed(splitlines(err)[1])
                        /\ db_rows' = db_rows
                   ELSE IF is_select
                   THEN /\ db_ret' =
                              Returned(IF cursor_description(q) # "None"
                                       THEN PyList(db_rows) ELSE PyList(0),
                                       PyNone)
                        /\ db_rows' = db_rows
                   ELSE /\ Committed(q) <= MaxRows
                        /\ db_ret' =
                              Returned(PyStr(<<"Query executed successfully. Rows affected: ">>
                                             \o DecimalDigits(cursor_rowcount(q))),
                                       PyNone)
                        /\ db_rows' = Committed(q)

\* the catalogue queries of lines 34-49, 133-138 and 157-173, which the
\* server accepts
CatalogueQuery == <<"SELECT", " table_name FROM information_schema.tables">>

\* get_database_schema_string() under the database condition db
get_database_schema_string(db) ==
    LET conn == get_db_connection(db)
        err == cursor_execute(CatalogueQuery, db)
    IN  /\ db_call' = [fn |-> "get_database_schema_string", query |-> <<>>,
                       db |-> db, connects |-> 1]
        /\ db_rows' = db_rows
        /\ IF conn = "None"
           THEN \* lines 28-29, before the try block
                /\ db_ret' = Returned(PyStr(<<"Error: Could not connect to the database to fetch schema.">>),
                                      PyNone)
                /\ db_open' = db_open + Opened(conn)
           ELSE /\ db_ret' =
                      IF err = NoDbError
                      THEN Returned(PyStr(<<"Table t, columns = [a]">>), PyNone)
                      ELSE Returned(PyStr(<<"Error: Database error while fetching schema: ">>
                                          \o err), PyNone)
                /\ db_open' = db_open + Opened(conn)
                                - finally_close(conn, IF err = NoDbError
                                                      THEN "return" ELSE "except")

\* list_tables() under the database condition db: psycopg2.connect is
\* called inside the try block and every Exception gives []
list_tables(db) ==
    LET conn == get_db_connection(db)
        err == cursor_execute(CatalogueQuery, db)
    IN  /\ db_call' = [fn |-> "list_tables", query |-> <<>>, db |-> db,
                       connects |-> 1]
        /\ db_rows' = db_rows
        /\ db_ret' = IF conn # "None" /\ err = NoDbError
                     THEN Returned(PyList(1), PyNone)
                     ELSE Returned(PyList(0), PyNone)
        /\ db_open' = db_open + Opened(conn)
                        - finally_close(conn, IF conn # "None" /\ err = NoDbError
                                              THEN "return" ELSE "except")

\* get_foreign_key_relationships() under the database condition db
get_foreign_key_relationships(db) ==
    LET conn == get_db_connection(db)
        err == cursor_execute(CatalogueQuery, db)
    IN  /\ db_call' = [fn |-> "get_foreign_key_relationships", query |-> <<>>,
                       db |-> db, connects |-> 1]
        /\ db_rows' = db_rows
        /\ IF conn = "None"
           THEN \* lines 155-156, before the try block
                /\ db_ret' = Returned(PyList(1), PyNone)
                /\ db_open' = db_open + Opened(conn)
           ELSE /\ db_ret' = IF err = NoDbError THEN Returned(PyList(0), PyNone)
                             ELSE Returned(PyList(1), PyNone)
                /\ db_open' = db_open + Opened(conn)
                                - finally_close(conn, IF err = NoDbError
                                                      THEN "return" ELSE "except")

SchemaCall ==
    /\ \E db \in DbConditions : get_database_schema_string(db)
    /\ UNCHANGED <<retryVars, pairVars, uiVars>>

ListTablesCall ==
    /\ \E db \in DbConditions : list_tables(db)
    /\ UNCHANGED <<retryVars, pairVars, uiVars>>

ForeignKeysCall ==
    /\ \E db \in DbConditions : get_foreign_key_relationships(db)
    /\ UNCHANGED <<retryVars, pairVars, uiVars>>

ValidateCall ==
    /\ \E q \in Queries, db \in DbConditions : validate_sql_query(q, db)
    /\ UNCHANGED <<retryVars, pairVars, uiVars>>

ExecuteCall ==
    /\ \E q \in Queries, db \in DbConditions : execute_pg_query(q, db)
    /\ UNCHANGED <<retryVars, pairVars, uiVars>>

DbNext ==
    \/ ValidateCall
    \/ ExecuteCall
    \/ SchemaCall
    \/ ListTablesCall
    \/ ForeignKeysCall

SpecDb == Init /\ [][DbNext]_vars

(***************************************************************************)
(* The student grader, main.py lines 307-362, and extract_sql_from_pdf.    *)
(* The text of a PDF is a sequence of tokens: digits, ".", whitespace, the *)
(* keyword, the rest of a statement, ";".                                  *)
(***************************************************************************)
LEN_GROUND_TRUTH_QUESTIONS == 14

MaxAnswers == 15

\* the answer to question k as a student writes it: "k. SELECT ... ;"
Answer(k) ==
    DecimalDigits(k) \o <<".", " ", "SELECT", " a", "\n", "FROM t", " ", ";", "\n">>

\* a lab sheet with the answers 1..n
RECURSIVE AnswerSheet(_)
AnswerSheet(n) == IF n = 0 THEN <<>> ELSE AnswerSheet(n - 1) \o Answer(n)

SheetSizes ==
    {0, 1, LEN_GROUND_TRUTH_QUESTIONS - 1, LEN_GROUND_TRUTH_QUESTIONS, MaxAnswers}

PdfFiles ==
    {[name |-> n, readable |-> TRUE, text |-> AnswerSheet(k)] :
        n \in {"a.pdf", "b.pdf"}, k \in SheetSizes}
    \cup {[name |-> "a.pdf", readable |-> FALSE, text |-> <<>>],
          \* answers that do not end in a semicolon, an answer that is not a
          \* SELECT statement
          [name |-> "b.pdf", readable |-> TRUE,
           text |-> <<"1", ".", " ", "select", " a FROM t", "\n",
                      "2", ".", " ", "WITH", " x AS (...)", ";", "\n",
                      "3", ".", "SELECT", " b FROM u", ";">>]}

\* the position of the first ";" of s at or after p (Len(s) + 1 if none)
RECURSIVE SkipToSemicolon(_, _)
SkipToSemicolon(s, p) ==
    IF p <= Len(s) /\ s[p] # ";" THEN SkipToSemicolon(s, p + 1) ELSE p

\* The pattern  \d+\.\s*(SELECT.*?);  with DOTALL and IGNORECASE anchored at
\* position p: the position of the closing ";", or 0 without a match.
AnswerEnd(s, p) ==
    IF ~IsDigit(s[p]) THEN 0
    ELSE LET q == SkipDigits(s, p) IN
         IF q > Len(s) \/ s[q] # "." THEN 0
         ELSE LET r == SkipSpaces(s, q + 1) IN
              IF r > Len(s) \/ UpperToken(s[r]) # "SELECT" THEN 0
              ELSE LET t == SkipToSemicolon(s, r + 1) IN
                   IF t > Len(s) THEN 0 ELSE t

\* group 1 of the match that ends at t
AnswerGroup(s, p, t) == SubSeq(s, SkipSpaces(s, SkipDigits(s, p) + 1), t - 1)

\* re.findall from position p on
RECURSIVE findall(_, _)
findall(s, p) ==
    IF p > Len(s) THEN <<>>
    ELSE LET t == AnswerEnd(s, p) IN
         IF t = 0 THEN findall(s, p + 1)
         ELSE <<AnswerGroup(s, p, t)>> \o findall(s, t + 1)

\* q.strip().replace('\n', ' ')
clean_query(q) ==
    LET t == strip(q) IN [k \in 1..Len(t) |-> IF t[k] = "\n" THEN " " ELSE t[k]]

\* extract_sql_from_pdf: the queries and no error, or NoQueries and the
\* error when the file cannot be read
NoQueries == <<>>

extract_sql_from_pdf(f) ==
    IF f.readable
    THEN LET queries == findall(f.text, 1) IN
         [queries |-> [k \in 1..Len(queries) |-> clean_query(queries[k])],
          pdf_error |-> "None"]
    ELSE [queries |-> NoQueries, pdf_error |-> "Failed to process PDF"]

\* lines 309-322 of a run of the script with file f in the uploader
AfterExtraction(f) ==
    IF f = NoFile THEN session_state
    ELSE IF session_state.has_student_queries /\ session_state.processed_file = f.name
    THEN session_state
    ELSE LET extracted == extract_sql_from_pdf(f) IN
         [has_student_queries |-> TRUE,
          student_queries |-> IF extracted.pdf_error # "None" THEN <<>>
                              ELSE extracted.queries,
          processed_file |-> f.name]

\* the user puts a file into the uploader, replaces it or removes it, and
\* the script runs again
Upload ==
    /\ \E f \in PdfFiles \cup {NoFile} :
          /\ uploaded_file' = f
          /\ session_state' = AfterExtraction(f)
    /\ graded' = NoGrade
    /\ UNCHANGED <<retryVars, pairVars, dbVars, display, tab2, tab3>>

\* the user selects question k + 1 and clicks "Grade Question": the script
\* runs again, lines 354-362
GradeQuestion ==
    /\ uploaded_file # NoFile
    /\ session_state.student_queries # <<>>
    /\ \E selected_index \in 0..(LEN_GROUND_TRUTH_QUESTIONS - 1) :
          graded' =
             IF selected_index + 1 \in DOMAIN session_state.student_queries
             THEN [kind |-> "graded", selected_index |-> selected_index,
                   student_sql |-> session_state.student_queries[selected_index + 1]]
             ELSE [kind |-> "IndexError", selected_index |-> selected_index,
                   student_sql |-> <<>>]
    /\ UNCHANGED <<uploaded_file, session_state>>
    /\ UNCHANGED <<retryVars, pairVars, dbVars, display, tab2, tab3>>

GraderNext ==
    \/ Upload
    \/ GradeQuestion

SpecGrader == Init /\ [][GraderNext]_vars

(***************************************************************************)
(* The selection of a query from the candidates of generate_multiple_sql,  *)
(* main.py lines 217-229 (query generator) and 397-405 (student grader).   *)
(* A candidate is a sequence of tokens; "--" starts a comment.  The        *)
(* validator is asked once per candidate it is given, under the database   *)
(* condition of that moment.                                               *)
(***************************************************************************)
NUM_RETURN_SEQUENCES == 3

Candidates ==
    {Q_SELECT,
     Q_INSERT \o <<" ", "--", " one row">>,
     <<"--", " no query">>,
     Q_MISSPELT}

CandidateLists == [1..NUM_RETURN_SEQUENCES -> Candidates]

DbSchedules == [1..NUM_RETURN_SEQUENCES -> DbConditions]

\* q.split('--')[0]
RECURSIVE before_comment(_)
before_comment(q) ==
    IF q = <<>> \/ q[1] = "--" THEN <<>>
    ELSE <<q[1]>> \o before_comment(Tail(q))

\* q.split('--')[0].strip()
cleaned(q) == strip(before_comment(q))

PLACEHOLDER_TAB2 == <<"Error: ", "Local model failed to generate a valid query.">>

PLACEHOLDER_TAB3 == <<"Error: ", "Could not generate a valid query for: ", "question_text">>

Selection(kind, selected, validated) ==
    [kind |-> kind, selected |-> selected, validated |-> validated]

\* lines 221-229 from candidate k on: the loop runs to the end of the list,
\* valid_found keeps the first valid candidate
RECURSIVE tab2_loop(_, _, _, _)
tab2_loop(qs, dbs, k, acc) ==
    IF k > Len(qs) THEN acc
    ELSE IF cleaned(qs[k]) = <<>> THEN tab2_loop(qs, dbs, k + 1, acc)
    ELSE LET ret == validate_returns(cleaned(qs[k]), dbs[k]) IN
         IF ret.kind = "raise"
         THEN Selection("raised", <<>>, acc.validated + 1)
         ELSE IF ret.first = PyBool(TRUE) /\ acc.kind # "selected"
         THEN tab2_loop(qs, dbs, k + 1,
                        Selection("selected", cleaned(qs[k]), acc.validated + 1))
         ELSE tab2_loop(qs, dbs, k + 1,
                        Selection(acc.kind, acc.selected, acc.validated + 1))

\* lines 399-405 from candidate k on: the loop breaks at the first valid
\* candidate
RECURSIVE tab3_loop(_, _, _, _)
tab3_loop(qs, dbs, k, acc) ==
    IF k > Len(qs) THEN acc
    ELSE IF cleaned(qs[k]) = <<>> THEN tab3_loop(qs, dbs, k + 1, acc)
    ELSE LET ret == validate_returns(cleaned(qs[k]), dbs[k]) IN
         IF ret.kind = "raise"
         THEN Selection("raised", <<>>, acc.validated + 1)
         ELSE IF ret.first = PyBool(TRUE)
         THEN Selection("selected", cleaned(qs[k]), acc.validated + 1)
         ELSE tab3_loop(qs, dbs, k + 1,
                        Selection(acc.kind, acc.selected, acc.validated + 1))

Selected(sel, qs, dbs) ==
    [kind |-> sel.kind, candidates |-> qs, answers |-> dbs,
     selected |-> sel.selected, validated |-> sel.validated]

\* generate_multiple_sql gives the candidates; the database conditions are
\* those the validator will meet, candidate by candidate.  Both tabs are
\* given the same list, once the list before it has been handled.
NewCandidates ==
    /\ tab2.candidates = <<>> \/ (tab2.kind # "none" /\ tab3.kind # "none")
    /\ \E qs \in CandidateLists, dbs \in DbSchedules :
          /\ tab2' = Selected(Selection("none", <<>>, 0), qs, dbs)
          /\ tab3' = Selected(Selection("none", <<>>, 0), qs, dbs)
    /\ UNCHANGED <<retryVars, pairVars, dbVars, display, uploaded_file,
                   session_state, graded>>

Tab2Select ==
    /\ tab2.kind = "none"
    /\ tab2.candidates # <<>>
    /\ tab2' = Selected(tab2_loop(tab2.candidates, tab2.answers, 1,
                                  Selection("placeholder", PLACEHOLDER_TAB2, 0)),
                        tab2.candidates, tab2.answers)
    /\ UNCHANGED <<retryVars, pairVars, dbVars, display, uploaded_file,
                   session_state, graded, tab3>>

Tab3Select ==
    /\ tab3.kind = "none"
    /\ tab3.candidates # <<>>
    /\ tab3' = Selected(tab3_loop(tab3.candidates, tab3.answers, 1,
                                  Selection("placeholder", PLACEHOLDER_TAB3, 0)),
                        tab3.candidates, tab3.answers)
    /\ UNCHANGED <<retryVars, pairVars, dbVars, display, uploaded_file,
                   session_state, graded, tab2>>

SelectNext ==
    \/ NewCandidates
    \/ Tab2Select
    \/ Tab3Select

SpecSelect == Init /\ [][SelectNext]_vars

TypeOK ==
    /\ pc \in {"idle", "loop", "returned", "raised"}
    /\ i \in 0..MAX_RETRIES
    /\ calls \in 0..(MAX_RETRIES + 1)

(***************************************************************************)
(* Vocabulary of the properties.  These are stated on what the service     *)
(* sent (the fields of the exception, the response text), not on what the  *)
(* controller computed from it.                                            *)
(***************************************************************************)
Entered == state \notin {"Idle", "NotConfigured"}

IsError(a) == a.outcome.tag = "exception"

IsResponse(a) == a.outcome.tag = "response"

\* the error carries the rate-limit signature: status 429, or the digits
\* 429 somewhere in its message
HasRateLimitMarker(e) == e.code = 429 \/ e.message = AddressMessage

\* the service refused the call for quota reasons
IsQuotaRefusal(e) == e.cls = "ResourceExhausted"

\* timeouts, connection failures and malformed requests
FailFastClasses == {"DeadlineExceeded", "ServiceUnavailable", "InvalidArgument"}

\* the error text embeds a suggested delay of whole seconds
HasDelayHint(e) == e.retry_delay # NoDelay /\ ~e.nanos

\* response texts that are one JSON document, possibly fenced
WellFormedTexts ==
    {<<GoodDoc>>,
     <<FENCE, "json", "\n", GoodDoc, "\n", FENCE>>,
     <<"\n", FENCE, "\n", GoodDoc, "\n", FENCE, "\n">>,
     <<" ", GoodDoc, "\n">>,
     <<"{\"error\": \"quota\"}">>,
     <<FENCE, "json", "\n", "[1, 2]", "\n", FENCE>>,
     <<"7">>, <<"\"ok\"">>, <<"null">>}

MalformedTexts == ResponseTexts \ WellFormedTexts

\* the JSON document a well-formed text holds
DocumentOf(t) == CHOOSE d \in JsonDocuments : \E p \in 1..Len(t) : t[p] = d

RateLimitedAt(k) ==
    IsError(attempts[k]) /\ HasRateLimitMarker(attempts[k].outcome.exc)

AllRateLimited == \A k \in 1..Len(attempts) : RateLimitedAt(k)

FailureReasons == {MSG_INVALID_JSON, MSG_NON_RETRYABLE, MSG_EXHAUSTED}

\* attempt k ended the invocation: it is the last one, nothing was slept
\* after it, and the function returned
EndedAt(k) ==
    /\ k = Len(attempts)
    /\ calls = k
    /\ Len(sleeps) = k - 1
    /\ pc = "returned"

(***************************************************************************)
(* C1.  One invocation of the retry loop (either implementation) never     *)
(* makes more than MAX_RETRIES calls of the service.                       *)
(***************************************************************************)
C1_AtMostMaxRetriesCalls == calls <= MAX_RETRIES /\ Len(attempts) = calls

C1_Witness ==
    /\ calls = MAX_RETRIES
    /\ fn = "gemini_grade_full_lab_sheet"
    /\ state = "FailedExhausted"

(***************************************************************************)
(* C2.  When every attempt is answered with a rate-limit error (with or    *)
(* without a delay hint), the invocation makes exactly MAX_RETRIES calls,  *)
(* sleeps once after each of the first MAX_RETRIES - 1 and not after the   *)
(* last, and returns the retries-exhausted failure.                        *)
(***************************************************************************)
C2_AlwaysRateLimited ==
    (Entered /\ AllRateLimited) =>
        /\ pc = "loop" => (calls = i /\ Len(sleeps) = i /\ i < MAX_RETRIES)
        /\ pc = "returned" =>
              /\ calls = MAX_RETRIES
              /\ Len(sleeps) = MAX_RETRIES - 1
              /\ result = ErrorDict(MSG_EXHAUSTED)
              /\ state = "FailedExhausted"
        /\ pc \in {"loop", "returned"}

C2_Witness ==
    /\ pc = "returned"
    /\ Entered
    /\ AllRateLimited
    /\ \E k \in 1..Len(attempts) : HasDelayHint(attempts[k].outcome.exc)
    /\ HasDelayHint(attempts[MAX_RETRIES].outcome.exc)
    /\ \E k \in 1..Len(attempts) : attempts[k].outcome.exc.retry_delay = NoDelay

(***************************************************************************)
(* C3.  An attempt that fails with an error without the rate-limit         *)
(* signature ends the invocation: no call and no sleep follow it and the   *)
(* non-retryable failure is returned; on the first attempt that is one     *)
(* call and no sleep.                                                      *)
(***************************************************************************)
C3_OtherErrorFailsFast ==
    \A k \in 1..Len(attempts) :
        (IsError(attempts[k]) /\ ~HasRateLimitMarker(attempts[k].outcome.exc)) =>
            /\ EndedAt(k)
            /\ attempts[k].wait = NoWait
            /\ result = ErrorDict(MSG_NON_RETRYABLE)
            /\ state = "FailedTerminal"

C3_Witness ==
    /\ Len(attempts) = 3
    /\ IsError(attempts[3])
    /\ attempts[3].outcome.exc.cls = "NotFound"
    /\ pc = "returned"
    /\ Len(sleeps) = 2

(***************************************************************************)
(* C4.  A response whose text is not one JSON document once the fences are *)
(* stripped ends the invocation with the malformed-response failure: no    *)
(* call and no sleep follow it.                                            *)
(***************************************************************************)
C4_MalformedIsTerminal ==
    \A k \in 1..Len(attempts) :
        (IsResponse(attempts[k]) /\ attempts[k].outcome.text \in MalformedTexts) =>
            /\ EndedAt(k)
            /\ result = ErrorDict(MSG_INVALID_JSON)
            /\ state = "FailedTerminal"

C4_Witness ==
    /\ attempts = <<Attempt(Outcome("response", <<FENCE, "json", "\n", "{\"score\": 9,">>, NoExc), NoWait)>>
    /\ calls = 1
    /\ sleeps = <<>>
    /\ result = ErrorDict(MSG_INVALID_JSON)

C6_ExponentialWait ==
    \A k \in 1..Len(attempts) :
        (RateLimitedAt(k) /\ attempts[k].outcome.exc.retry_delay = NoDelay) =>
            attempts[k].wait = INITIAL_WAIT_SECONDS * (2 ^ (k - 1))

C6_Witness ==
    /\ Len(attempts) >= 3
    /\ RateLimitedAt(1) /\ HasDelayHint(attempts[1].outcome.exc)
    /\ RateLimitedAt(2) /\ HasDelayHint(attempts[2].outcome.exc)
    /\ RateLimitedAt(3) /\ attempts[3].outcome.exc.retry_delay = NoDelay
    /\ attempts[3].wait = 8
    /\ sleeps[3] = 8

(***************************************************************************)
(* C7.  Scenario: rate-limited with suggested delay 5, rate-limited        *)
(* without hint, then a valid payload: the sleeps are 6 and                *)
(* INITIAL_WAIT_SECONDS * 2 in that order, three calls are made and the    *)
(* result is the parsed payload.                                           *)
(***************************************************************************)
C7_Scenario ==
    /\ Len(attempts) = 3
    /\ IsError(attempts[1]) /\ IsQuotaRefusal(attempts[1].outcome.exc)
    /\ attempts[1].outcome.exc.retry_delay = 5 /\ ~attempts[1].outcome.exc.nanos
    /\ IsError(attempts[2]) /\ IsQuotaRefusal(attempts[2].outcome.exc)
    /\ attempts[2].outcome.exc.retry_delay = NoDelay
    /\ IsResponse(attempts[3])
    /\ attempts[3].outcome.text \in WellFormedTexts

C7_ScenarioResult ==
    C7_Scenario =>
        /\ pc = "returned"
        /\ sleeps = <<6, INITIAL_WAIT_SECONDS * 2>>
        /\ calls = 3
        /\ state = "Succeeded"
        /\ result = JsonValue(DocumentOf(attempts[3].outcome.text))

C7_Witness ==
    /\ C7_Scenario
    /\ attempts[3].outcome.text = <<FENCE, "json", "\n", GoodDoc, "\n", FENCE>>
    /\ result = PyValue("dict", {"score", "feedback"}, "")
    /\ fn \in HelperCallers

(***************************************************************************)
(* C8.  An invocation never ends by an exception leaving the function.     *)
(* What it returns is either the parsed payload of the last response or a  *)
(* failure value whose reason is one of malformed-response,                *)
(* non-retryable-error, retries-exhausted.                                 *)
(***************************************************************************)
C8_ReturnsValueOrFailure ==
    /\ pc # "raised"
    /\ (pc = "returned" /\ Entered) =>
          \/ /\ state = "Succeeded"
             /\ IsResponse(attempts[Len(attempts)])
             /\ attempts[Len(attempts)].outcome.text \in WellFormedTexts
             /\ result = JsonValue(DocumentOf(attempts[Len(attempts)].outcome.text))
          \/ /\ state \in {"FailedTerminal", "FailedExhausted"}
             /\ \E m \in FailureReasons : result = ErrorDict(m)

C8_Witness ==
    /\ pc = "returned"
    /\ Len(attempts) = 2
    /\ IsError(attempts[2])
    /\ attempts[2].outcome.exc.cls = "ValueError"
    /\ result = ErrorDict(MSG_NON_RETRYABLE)

(***************************************************************************)
(* C9.  The retries-exhausted failure is returned only when every one of   *)
(* the MAX_RETRIES attempts was refused by the service for rate limiting.  *)
(***************************************************************************)
C9_ExhaustedOnlyIfAllRateLimited ==
    state = "FailedExhausted" =>
        /\ Len(attempts) = MAX_RETRIES
        /\ \A k \in 1..Len(attempts) :
              IsError(attempts[k]) /\ IsQuotaRefusal(attempts[k].outcome.exc)

\* What holds of the code instead: every attempt of an exhausted invocation
\* carried the digits 429 in its error text.
ExhaustedOnlyIfAllMarked ==
    state = "FailedExhausted" =>
        /\ Len(attempts) = MAX_RETRIES
        /\ AllRateLimited

(***************************************************************************)
(* C10.  A timeout, a connection failure or a malformed-request error is   *)
(* treated as non-retryable whatever its text holds: the invocation ends   *)
(* at that attempt with the non-retryable failure, without a wait.         *)
(***************************************************************************)
C10_FailFastWhateverTheText ==
    \A k \in 1..Len(attempts) :
        (IsError(attempts[k]) /\ attempts[k].outcome.exc.cls \in FailFastClasses) =>
            /\ EndedAt(k)
            /\ attempts[k].wait = NoWait
            /\ result = ErrorDict(MSG_NON_RETRYABLE)

(***************************************************************************)
(* C11.  Each attempt makes one service call, each retry sleeps once, for  *)
(* the backoff computed from the failed attempt, and nothing is called or  *)
(* slept once the outcome of the invocation is determined.                 *)
(***************************************************************************)
\* the backoff after a rate-limited attempt of 0-based index idx
ExpectedWait(e, idx) ==
    IF HasDelayHint(e) THEN e.retry_delay + 1
    ELSE INITIAL_WAIT_SECONDS * (2 ^ idx)

C11_OneCallPerAttemptOneSleepPerRetry ==
    Entered =>
        /\ Len(attempts) = calls
        /\ pc = "loop" => (i = calls /\ Len(sleeps) = calls)
        /\ pc = "returned" => Len(sleeps) = calls - 1
        /\ \A k \in 1..Len(sleeps) :
              /\ RateLimitedAt(k)
              /\ sleeps[k] = ExpectedWait(attempts[k].outcome.exc, k - 1)

C11_Witness ==
    /\ fn = "gemini_grade_full_lab_sheet"
    /\ pc = "returned"
    /\ state = "Succeeded"
    /\ calls = 4
    /\ sleeps = <<2, 6, 8>>

(***************************************************************************)
(* C12.  A reply that parsed is final: no call and no sleep follow it and  *)
(* the result is the parsed payload; no cooldown step stands between the   *)
(* parse and the return that could turn it into a failure.                 *)
(***************************************************************************)
C12_ParsedReplyIsFinal ==
    \A k \in 1..Len(attempts) :
        (IsResponse(attempts[k]) /\ attempts[k].outcome.text \in WellFormedTexts) =>
            /\ EndedAt(k)
            /\ state = "Succeeded"
            /\ result = JsonValue(DocumentOf(attempts[k].outcome.text))

C12_Witness ==
    /\ fn \in HelperCallers
    /\ Len(attempts) = 2
    /\ IsResponse(attempts[2])
    /\ attempts[2].outcome.text = <<" ", GoodDoc, "\n">>
    /\ state = "Succeeded"
    /\ Len(sleeps) = 1

(***************************************************************************)
(* C13.  After every successful call the controller sleeps                 *)
(* FORCED_WAIT_SECONDS: a run that ends in Success has that sleep after    *)
(* the successful call.                                                    *)
(***************************************************************************)
C13_CooldownAfterSuccess ==
    state = "Succeeded" =>
        /\ Len(sleeps) = calls
        /\ sleeps[Len(sleeps)] = FORCED_WAIT_SECONDS

C15_SuccessIsMapping == state = "Succeeded" => result.type = "dict"

(***************************************************************************)
(* C17.  When every service call and every sleep returns, an invocation    *)
(* that entered its loop returns to the caller, after at most MAX_RETRIES  *)
(* calls and at most MAX_RETRIES - 1 sleeps.                               *)
(***************************************************************************)
C17_Terminates ==
    /\ (pc = "loop") ~> (pc = "returned" /\ state \in {"Succeeded", "FailedTerminal", "FailedExhausted"})
    /\ [](calls <= MAX_RETRIES /\ Len(sleeps) <= MAX_RETRIES - 1)

C17_Witness ==
    /\ pc = "returned"
    /\ state = "FailedExhausted"
    /\ calls = MAX_RETRIES
    /\ Len(sleeps) = MAX_RETRIES - 1
    /\ fn = "gemini_grade_full_lab_sheet"

(***************************************************************************)
(* C18.  The loop is entered at index 0 with nothing slept and nothing     *)
(* called.  The head of the loop is reached again only from the head of    *)
(* the loop at index i < MAX_RETRIES - 1, by one call whose error is       *)
(* classified as rate-limited (its text carries 429) followed by one       *)
(* sleep, and then at index i + 1: no index is skipped or repeated.        *)
(***************************************************************************)
C18_AttemptOrder ==
    [][/\ (pc # "loop" /\ pc' = "loop") =>
             (i' = 0 /\ calls' = 0 /\ sleeps' = <<>> /\ attempts' = <<>>)
       /\ (pc = "loop" /\ pc' = "loop") =>
             /\ i < MAX_RETRIES - 1
             /\ i' = i + 1
             /\ calls' = calls + 1
             /\ Len(sleeps') = Len(sleeps) + 1
             /\ Len(attempts') = i'
             /\ IsError(attempts'[i'])
             /\ HasRateLimitMarker(attempts'[i'].outcome.exc)
       /\ pc' = "loop" => i' \in 0..(MAX_RETRIES - 1)]_vars

C18_Witness ==
    /\ pc = "loop"
    /\ i = MAX_RETRIES - 1
    /\ calls = MAX_RETRIES - 1
    /\ Len(sleeps) = MAX_RETRIES - 1

(***************************************************************************)
(* C16.  Two interleaved invocations do not interfere.  What an            *)
(* invocation has called, slept and returned is determined by the service  *)
(* outcomes it received; a step of one thread changes nothing of the       *)
(* other; and the process-wide API key, once configured, is never changed  *)
(* by the other invocation (every invocation configures the same key).     *)
(***************************************************************************)
\* what the controller returns after the attempts a, when it has returned
ExpectedResult(a) ==
    LET last == a[Len(a)] IN
    IF IsResponse(last)
    THEN IF last.outcome.text \in WellFormedTexts
         THEN JsonValue(DocumentOf(last.outcome.text))
         ELSE ErrorDict(MSG_INVALID_JSON)
    ELSE IF HasRateLimitMarker(last.outcome.exc) THEN ErrorDict(MSG_EXHAUSTED)
    ELSE ErrorDict(MSG_NON_RETRYABLE)

\* the locals l of an invocation are those its own service outcomes give
DeterminedByOwnOutcomes(l) ==
    (l.state \notin {"Idle", "NotConfigured"}) =>
        /\ l.calls = Len(l.attempts)
        /\ l.pc = "loop" => Len(l.sleeps) = Len(l.attempts)
        /\ l.pc = "returned" =>
              /\ Len(l.sleeps) = Len(l.attempts) - 1
              /\ l.result = ExpectedResult(l.attempts)
        /\ \A k \in 1..Len(l.sleeps) :
              l.sleeps[k] = ExpectedWait(l.attempts[k].outcome.exc, k - 1)

C16_NoInterference ==
    /\ [](DeterminedByOwnOutcomes(Locals) /\ DeterminedByOwnOutcomes(other))
    /\ [][/\ cur' = cur => other' = other
          /\ api_key # "unset" => api_key' = api_key]_vars

C16_Witness ==
    /\ pc = "returned" /\ state = "Succeeded" /\ Len(sleeps) = 2
    /\ fn = "gemini_grade_full_lab_sheet"
    /\ other.pc = "returned" /\ other.state = "FailedExhausted"
    /\ other.fn = "validate_and_score_sql_with_google_api"
    /\ api_key = SECRET_API_KEY

(***************************************************************************)
(* C19.  validate_sql_query never raises: for every query and every        *)
(* database condition, a failed connection included, it returns a pair of  *)
(* a bool and a message, and a blank query gives (False, ...) without a    *)
(* connection being opened.                                                *)
(***************************************************************************)
IsBlank(q) == \A k \in 1..Len(q) : IsSpace(q[k])

C19_ValidateAlwaysReturnsPair ==
    db_call.fn = "validate_sql_query" =>
        /\ db_ret.kind = "return"
        /\ db_ret.first.type = "bool"
        /\ db_ret.second.type = "str"
        /\ IsBlank(db_call.query) =>
              /\ db_ret.first.text = <<"False">>
              /\ db_call.connects = 0

\* the part of C19 about blank queries, which the code keeps
BlankQueryRefusedWithoutConnection ==
    (db_call.fn = "validate_sql_query" /\ IsBlank(db_call.query)) =>
        /\ db_ret.kind = "return"
        /\ db_ret.first = PyBool(FALSE)
        /\ db_call.connects = 0

(***************************************************************************)
(* C20.  execute_pg_query never raises: for every query and every database *)
(* condition, a failed connection included, it returns a pair (results,    *)
(* error_message) of which exactly one is None.                            *)
(***************************************************************************)
C20_ExecuteReturnsResultsOrError ==
    db_call.fn = "execute_pg_query" =>
        /\ db_ret.kind = "return"
        /\ (db_ret.first.type = "NoneType") # (db_ret.second.type = "NoneType")
        /\ db_ret.second.type \in {"NoneType", "str"}
        /\ db_ret.first.type \in {"NoneType", "list", "str"}

\* what C20 says of the calls that return, which the code keeps
ReturnedPairHasExactlyOneNone ==
    (db_call.fn = "execute_pg_query" /\ db_ret.kind = "return") =>
        (db_ret.first = PyNone) # (db_ret.second = PyNone)

(***************************************************************************)
(* C21.  The loop of _call_gemini_with_retry and the loop of               *)
(* gemini_grade_full_lab_sheet are observationally equivalent: on the same *)
(* sequence of service outcomes they make the same calls, sleep the same   *)
(* durations in the same order and return the same result.                 *)
(***************************************************************************)
C21_LoopsEquivalent ==
    (cur = 2 /\ other.pc = "returned") =>
        /\ pc = "loop" =>
              /\ calls < other.calls
              /\ Len(sleeps) <= Len(other.sleeps)
              /\ sleeps = SubSeq(other.sleeps, 1, Len(sleeps))
              /\ Len(sleeps) = calls
        /\ pc # "loop" =>
              /\ pc = "returned"
              /\ calls = other.calls
              /\ sleeps = other.sleeps
              /\ result = other.result
              /\ [k \in 1..Len(attempts) |-> attempts[k].outcome]
                    = [k \in 1..Len(other.attempts) |-> other.attempts[k].outcome]

C21_Witness ==
    /\ cur = 2 /\ pc = "returned" /\ other.pc = "returned"
    /\ calls = 4 /\ state = "Succeeded"
    /\ sleeps = <<6, 4, 8>>
    /\ other.sleeps = <<6, 4, 8>>

(***************************************************************************)
(* C22.  The caller's test agrees with the terminal state of the           *)
(* controller: the result is displayed as an API error if and only if the  *)
(* controller ended in FailedTerminal or FailedExhausted, and a reply that *)
(* parsed is never displayed as an API error.                              *)
(***************************************************************************)
C22_CallerAgreesWithController ==
    (display # "none" /\ Entered) =>
        /\ display = "api_error" <=> state \in {"FailedTerminal", "FailedExhausted"}
        /\ state = "Succeeded" => display # "api_error"

\* the direction of C22 the code keeps: every failure of the controller is
\* displayed as an API error
FailureIsDisplayedAsError ==
    (display # "none" /\ state \in {"FailedTerminal", "FailedExhausted"}) =>
        display = "api_error"

(***************************************************************************)
(* C23.  In the student grader, grading question k reads an existing       *)
(* element of st.session_state.student_queries: the selected index is      *)
(* smaller than the number of queries extracted from the uploaded PDF.     *)
(***************************************************************************)
C23_SelectedIndexInRange ==
    graded.kind # "none" =>
        /\ graded.selected_index < Len(session_state.student_queries)
        /\ graded.kind = "graded"

\* a sheet with an answer for every question is graded without error
FullSheetIsGraded ==
    (graded.kind # "none"
        /\ Len(session_state.student_queries) >= LEN_GROUND_TRUTH_QUESTIONS) =>
            /\ graded.kind = "graded"
            /\ graded.student_sql = <<"SELECT", " a", " ", "FROM t">>

(***************************************************************************)
(* C24.  Every connection a database function opens is closed before the  *)
(* function returns or raises, on the success path and on every error      *)
(* path: after any sequence of calls no connection is open.                *)
(***************************************************************************)
DatabaseFunctions ==
    {"get_database_schema_string", "validate_sql_query", "execute_pg_query",
     "list_tables", "get_foreign_key_relationships"}

C24_NoConnectionLeftOpen ==
    /\ db_open = 0
    /\ db_call.fn # "none" => db_call.fn \in DatabaseFunctions

\* a call that opened a connection and left through the except clause
C24_Witness ==
    /\ db_call.fn = "execute_pg_query"
    /\ db_call.db = "drops"
    /\ db_call.connects = 1
    /\ db_ret.kind = "return"
    /\ db_ret.second.type = "str"
    /\ db_open = 0

(***************************************************************************)
(* C25.  In both tabs the query selected is the first candidate, in        *)
(* generation order, whose text before the first "--" is non-empty after   *)
(* stripping and passes validate_sql_query; without such a candidate the   *)
(* selected value is the "Error: ..." placeholder.  The two tabs select    *)
(* the same candidate for the same candidates and validator answers.       *)
(***************************************************************************)
\* candidate k of the list handled by t qualifies
Qualifies(t, k) ==
    /\ cleaned(t.candidates[k]) # <<>>
    /\ t.answers[k] = "up"
    /\ t.candidates[k] # Q_MISSPELT

Qualifying(t) == {k \in 1..Len(t.candidates) : Qualifies(t, k)}

FirstQualifying(t) == CHOOSE k \in Qualifying(t) : \A j \in Qualifying(t) : k <= j

SelectsFirstQualifying(t) ==
    t.kind # "none" =>
        IF Qualifying(t) # {}
        THEN t.kind = "selected" /\ t.selected = cleaned(t.candidates[FirstQualifying(t)])
        ELSE t.kind = "placeholder" /\ t.selected[1] = "Error: "

TabsAgree ==
    (tab2.kind # "none" /\ tab3.kind # "none") =>
        /\ tab2.kind = tab3.kind
        /\ tab2.kind = "selected" => tab2.selected = tab3.selected

C25_FirstValidCandidateInBothTabs ==
    /\ SelectsFirstQualifying(tab2)
    /\ SelectsFirstQualifying(tab3)
    /\ TabsAgree

\* the validator returns for every candidate it can be given
ValidatorReturns(t) ==
    \A k \in 1..Len(t.candidates) :
        cleaned(t.candidates[k]) # <<>> => t.answers[k] # "down"

\* C25 for the candidate lists on which validate_sql_query does not raise
FirstValidCandidateWhenValidatorReturns ==
    (ValidatorReturns(tab2) /\ ValidatorReturns(tab3)) =>
        /\ SelectsFirstQualifying(tab2)
        /\ SelectsFirstQualifying(tab3)
        /\ TabsAgree

(***************************************************************************)
(* C26.  When the API key is missing from the secrets, each of the three   *)
(* public functions returns an error value at once: no service call, no    *)
(* sleep, and the retry loop is not entered.                               *)
(***************************************************************************)
C26_MissingKeyReturnsAtOnce ==
    state = "NotConfigured" =>
        /\ pc = "returned"
        /\ fn \in Functions
        /\ calls = 0
        /\ sleeps = <<>>
        /\ attempts = <<>>
        /\ result.type = "dict" /\ "error" \in result.keys
        /\ result.error = MSG_NO_KEY

\* a call of the lab-sheet grader that found the key missing
C26_Witness ==
    /\ state = "NotConfigured"
    /\ fn = "gemini_grade_full_lab_sheet"
    /\ pc = "returned"
    /\ calls = 0

====
